---- MODULE Spec2Model ----
(***************************************************************************)
(* Model of the waste-hotspot ticket extractor of src/main.py (CLI) and    *)
(* src/app.py (Streamlit web UI).                                          *)
(*                                                                         *)
(* run_model() hands a request to a strands Agent.  While the agent runs,  *)
(* the hosted model may ask for the tool waste_report any number of times; *)
(* each execution of waste_report replaces the content of the module-wide  *)
(* list COLLECTED_TICKETS by one new ticket dict.  When the agent returns, *)
(* run_model() takes COLLECTED_TICKETS[0], patches wall_time_seconds into  *)
(* it and returns it.  The two calling surfaces, main() and the web UI's   *)
(* button handler, wrap run_model() and write benchmark.json.              *)
(*                                                                         *)
(* Tickets are Python dicts, i.e. mutable objects handled by reference:    *)
(* heap[r] is the current content of the r-th dict allocated, and the      *)
(* buffer, the return values and the history hold references r.            *)
(*                                                                         *)
(* Time is counted in clock ticks of 0.0001 s, the precision that          *)
(* round(..., 4) keeps, so that the rounding of the elapsed time is exact. *)
(* The clock is taken not to be set back while a call is in flight.        *)
(***************************************************************************)
EXTENDS Integers, Sequences, FiniteSets, TLC

VARIABLES
    COLLECTED_TICKETS,  \* the module-wide list: a sequence of references into heap
    heap,               \* every ticket dict allocated so far, by allocation order
    now,                \* the wall clock read by time.time() and datetime.now()
    pc,                 \* "idle", or "agent" while run_model waits inside agent(...)
    call,               \* the run_model call in flight: surface, start_time, tool uses
    ncalls,             \* number of extraction calls started
    ninvokes,           \* number of times run_model has invoked agent([...])
    nuses,              \* number of tool uses the hosted model has asked for
    retRefs,            \* references returned by run_model, one per returning call
    last,               \* what the most recent finished attempt did
    file,               \* content of OUTPUT_PATH (benchmark.json)
    app                 \* app.py's own run_model and COLLECTED_TICKETS, run side
                        \* by side with main.py's under SpecEq

vars ==
    <<COLLECTED_TICKETS, heap, now, pc, call, ncalls, ninvokes, nuses, retRefs,
      last, file, app>>

----------------------------------------------------------------------------
(* Bounds of the model *)

MaxCalls == 2
MaxToolUses == 2
MaxTime == 1

----------------------------------------------------------------------------
(* The declared tool schema and the tool's signature *)

Required ==
    {"area_name", "lat", "lng", "waste_type", "volume_level",
     "estimated_weight_kg", "priority", "near_sensitive_zone", "action",
     "vehicle_type", "requires_after_photo"}

WasteTypes == {"ORGANIC", "PLASTIC", "E_WASTE", "C_D_WASTE", "MIXED", "OTHER"}
VolumeLevels == {"LOW", "MEDIUM", "HIGH"}
Priorities == {"P0", "P1", "P2"}
Actions == {"DISPATCH_NOW", "ADD_TO_ROUTE", "MONITOR"}
VehicleTypes == {"E_RICKSHAW", "PICKUP", "COMPACTOR", "OTHER"}

\* The inputSchema handed to @tool: required fields and enumerations.  It
\* declares "number" for lat, lng and estimated_weight_kg, with no range.
SchemaConforms(args) ==
    /\ Required \subseteq DOMAIN args
    /\ args.area_name \in STRING
    /\ args.lat \in Int
    /\ args.lng \in Int
    /\ args.waste_type \in WasteTypes
    /\ args.volume_level \in VolumeLevels
    /\ args.estimated_weight_kg \in Int
    /\ args.priority \in Priorities
    /\ args.near_sensitive_zone \in BOOLEAN
    /\ args.action \in Actions
    /\ args.vehicle_type \in VehicleTypes
    /\ args.requires_after_photo \in BOOLEAN

\* def waste_report(area_name, lat, ..., requires_after_photo): eleven
\* parameters, none with a default.  The body runs only when all are given.
SignatureAccepts(args) == Required \subseteq DOMAIN args

----------------------------------------------------------------------------
(* Tool-use arguments the hosted model may emit *)

Valid1 ==
    [area_name |-> "Race Course", lat |-> 11, lng |-> 77,
     waste_type |-> "PLASTIC", volume_level |-> "HIGH",
     estimated_weight_kg |-> 120, priority |-> "P0",
     near_sensitive_zone |-> TRUE, action |-> "DISPATCH_NOW",
     vehicle_type |-> "COMPACTOR", requires_after_photo |-> FALSE]

Valid2 ==
    [area_name |-> "Gandhipuram", lat |-> -12, lng |-> -78,
     waste_type |-> "ORGANIC", volume_level |-> "LOW",
     estimated_weight_kg |-> 0, priority |-> "P2",
     near_sensitive_zone |-> FALSE, action |-> "MONITOR",
     vehicle_type |-> "PICKUP", requires_after_photo |-> TRUE]

\* an enumerated field outside its declared set
BadEnum == [Valid1 EXCEPT !.waste_type = "GLASS"]

\* numbers outside the ranges of the data model
OutOfRange == [Valid2 EXCEPT !.lat = 91, !.lng = -181, !.estimated_weight_kg = -5]

\* a required field omitted
MissingField == [f \in Required \ {"priority"} |-> Valid1[f]]

ArgSpace == {Valid1, Valid2, BadEnum, OutOfRange, MissingField}

----------------------------------------------------------------------------
(* Values *)

None == <<>>
Some(x) == <<x>>

NoCallbackMsg == "Model did not call waste_report."
TransportMsg == "transport failure"
WriteMsg == "cannot write benchmark.json"

Surfaces == {"direct", "cli", "ui"}

NoCall == [surface |-> "none", start_time |-> 0, log |-> <<>>]

NoAttempt ==
    [surface |-> "none", agent |-> "none", outcome |-> "none", error |-> "",
     ref |-> 0, log |-> <<>>, message |-> "", crashed |-> FALSE,
     write |-> "none"]

NoFile == [kind |-> "none"]

Range(s) == {s[i] : i \in DOMAIN s}

\* str(uuid.uuid4()): a fresh identifier on every invocation
Uuid4 == Len(heap) + 1

\* the ticket dict literal with lat and lng taken from each other's argument
NewTicketSwapped(args, id, at) ==
    [ticket_id |-> id,
     created_at |-> at,
     area_name |-> args.area_name,
     lat |-> args.lng,
     lng |-> args.lat,
     waste_type |-> args.waste_type,
     volume_level |-> args.volume_level,
     estimated_weight_kg |-> args.estimated_weight_kg,
     priority |-> args.priority,
     near_sensitive_zone |-> args.near_sensitive_zone,
     action |-> args.action,
     vehicle_type |-> args.vehicle_type,
     requires_after_photo |-> args.requires_after_photo,
     wall_time_seconds |-> None]

\* the ticket dict literal of waste_report
NewTicket(args, id, at) ==
    [ticket_id |-> id,
     created_at |-> at,
     area_name |-> args.area_name,
     lat |-> args.lat,
     lng |-> args.lng,
     waste_type |-> args.waste_type,
     volume_level |-> args.volume_level,
     estimated_weight_kg |-> args.estimated_weight_kg,
     priority |-> args.priority,
     near_sensitive_zone |-> args.near_sensitive_zone,
     action |-> args.action,
     vehicle_type |-> args.vehicle_type,
     requires_after_photo |-> args.requires_after_photo,
     wall_time_seconds |-> None]

\* append without the clear
ClearAppendAlt(buf, ref) == Append(buf, ref)

\* the new ticket put in front of what the list holds, without the clear
ClearAppendFront(buf, ref) == <<ref>> \o buf

\* COLLECTED_TICKETS.clear() ... COLLECTED_TICKETS.append(ticket)
ClearAppend(buf, ref) == <<ref>>

\* elapsed = round(time.time() - start_time, 4)
Elapsed(t0, t1) == t1 - t0

----------------------------------------------------------------------------
(* app.py: its copy of waste_report and run_model, and the image format *)

\* names of uploaded files, as sequences of characters
Png == <<"a", ".", "p", "n", "g">>
Jpg == <<"a", ".", "j", "p", "g">>
UpperJpeg == <<"a", ".", "J", "P", "E", "G">>
TwoDots == <<"a", ".", "p", "n", "g", ".", "j", "p", "e", "g">>
UpperPng == <<"a", ".", "P", "N", "G">>

Uploads == {Png, Jpg, UpperJpeg, TwoDots, UpperPng}

\* str.lower() on one character of the names above
Lower(c) ==
    CASE c = "J" -> "j"
      [] c = "P" -> "p"
      [] c = "E" -> "e"
      [] c = "G" -> "g"
      [] c = "N" -> "n"
      [] OTHER -> c

\* uploaded_file.name.rsplit(".", 1)[-1].lower()
Ext(name) ==
    LET dots == {i \in DOMAIN name : name[i] = "."}
        from == IF dots = {}
                THEN 1
                ELSE 1 + CHOOSE i \in dots : \A j \in dots : j <= i
        tail == SubSeq(name, from, Len(name))
    IN [i \in DOMAIN tail |-> Lower(tail[i])]

\* image_format = "jpeg" if ext in ("jpg", "jpeg") else "png"
ImageFormat(name) ==
    IF Ext(name) \in {<<"j", "p", "g">>, <<"j", "p", "e", "g">>}
    THEN "jpeg"
    ELSE "png"

NoResult == [outcome |-> "none", error |-> "", ref |-> 0]

\* app.py before any call: COLLECTED_TICKETS = []
AppInit ==
    [buf |-> <<>>, heap |-> <<>>, upload |-> <<>>, format |-> "",
     start_time |-> 0, result |-> NoResult]

\* the parameters of app.py's waste_report, none with a default
App_Params ==
    {"area_name", "lat", "lng", "waste_type", "volume_level",
     "estimated_weight_kg", "priority", "near_sensitive_zone", "action",
     "vehicle_type", "requires_after_photo"}

App_SignatureAccepts(args) == App_Params \subseteq DOMAIN args

\* the ticket dict literal of app.py's waste_report
App_NewTicket(args, id, at) ==
    [ticket_id |-> id,
     created_at |-> at,
     area_name |-> args.area_name,
     lat |-> args.lat,
     lng |-> args.lng,
     waste_type |-> args.waste_type,
     volume_level |-> args.volume_level,
     estimated_weight_kg |-> args.estimated_weight_kg,
     priority |-> args.priority,
     near_sensitive_zone |-> args.near_sensitive_zone,
     action |-> args.action,
     vehicle_type |-> args.vehicle_type,
     requires_after_photo |-> args.requires_after_photo,
     wall_time_seconds |-> None]

\* app.py's list appended to without the clear
App_ClearAppendAlt(buf, ref) == Append(buf, ref)

\* app.py: COLLECTED_TICKETS.clear() ... COLLECTED_TICKETS.append(ticket)
App_ClearAppend(buf, ref) == <<ref>>

\* app.py's waste_report, invoked by the agent with args
App_WasteReport(a, args) ==
    IF App_SignatureAccepts(args)
    THEN LET ref == Len(a.heap) + 1
         IN [a EXCEPT !.heap = Append(@, App_NewTicket(args, ref, now)),
                      !.buf = App_ClearAppend(@, ref)]
    ELSE a

\* app.py's run_model(image_bytes, image_format) up to agent([...])
App_RunModelStart(a, name) ==
    [a EXCEPT !.upload = name, !.format = ImageFormat(name), !.start_time = now]

\* app.py's run_model once agent([...]) has returned or raised
App_RunModelEnd(a, agent) ==
    LET elapsed == now - a.start_time
        ok == agent = "returned" /\ a.buf # <<>>
        ref == IF ok THEN a.buf[1] ELSE 0
    IN [a EXCEPT
          !.heap = IF ok
                   THEN [@ EXCEPT ![ref].wall_time_seconds = Some(elapsed)]
                   ELSE @,
          !.result = [outcome |-> IF ok THEN "ticket" ELSE "error",
                      error |-> IF ok THEN ""
                                ELSE IF agent = "raised" THEN TransportMsg
                                ELSE "Model did not call waste_report.",
                      ref |-> ref]]

----------------------------------------------------------------------------
Init ==
    /\ COLLECTED_TICKETS = <<>>
    /\ heap = <<>>
    /\ now = 0
    /\ pc = "idle"
    /\ call = NoCall
    /\ ncalls = 0
    /\ ninvokes = 0
    /\ nuses = 0
    /\ retRefs = <<>>
    /\ last = NoAttempt
    /\ file = NoFile
    /\ app = AppInit

\* Time passes while run_model waits for the agent.
Tick ==
    /\ pc = "agent"
    /\ now < MaxTime
    /\ now' = now + 1
    /\ UNCHANGED <<COLLECTED_TICKETS, heap, pc, call, ncalls, ninvokes, nuses,
                   retRefs, last, file>>

\* An extraction call begins and run_model reaches agent([...]).
\*   "direct": a caller calls run_model in the process of the previous attempt
\*             (a new process if that one ended with an uncaught exception);
\*   "cli":    python main.py, a new process: the module body runs, then main();
\*   "ui":     the button is pressed: Streamlit runs the script of app.py again
\*             from the top, then the handler calls run_model.
\* The module body sets COLLECTED_TICKETS = []; run_model itself never touches
\* the list before the agent call.
Start(s) ==
    /\ pc = "idle"
    /\ ncalls < MaxCalls
    /\ COLLECTED_TICKETS' = IF s = "direct" /\ ~last.crashed
                            THEN COLLECTED_TICKETS
                            ELSE <<>>
    /\ pc' = "agent"
    /\ call' = [surface |-> s, start_time |-> now, log |-> <<>>]
    /\ ncalls' = ncalls + 1
    /\ ninvokes' = ninvokes + 1
    /\ UNCHANGED <<heap, now, nuses, retRefs, last, file>>

\* The hosted model asks for waste_report with args.  When the arguments fit
\* the signature the body runs; otherwise the tool answers the model with an
\* error and the agent goes on.
ToolUse(args) ==
    /\ pc = "agent"
    /\ nuses < MaxToolUses
    /\ nuses' = nuses + 1
    /\ IF SignatureAccepts(args)
       THEN LET id == Uuid4
                ref == Len(heap) + 1
            IN /\ heap' = Append(heap, NewTicket(args, id, now))
               /\ COLLECTED_TICKETS' = ClearAppend(COLLECTED_TICKETS, ref)
               /\ call' = [call EXCEPT !.log =
                     Append(@, [args |-> args, ran |-> TRUE, ref |-> ref,
                                id |-> id, at |-> now])]
       ELSE /\ call' = [call EXCEPT !.log =
                     Append(@, [args |-> args, ran |-> FALSE, ref |-> 0,
                                id |-> 0, at |-> 0])]
            /\ UNCHANGED <<heap, COLLECTED_TICKETS>>
    /\ UNCHANGED <<now, pc, ncalls, ninvokes, retRefs, last, file>>

\* json.dumps(result): the ticket as it is when written
Artifact(outcome, error, ticket) ==
    IF outcome = "ticket"
    THEN [kind |-> "ticket", ticket |-> ticket]
    ELSE [kind |-> "error", error |-> error]

\* What is left of the attempt once agent(...) has returned or raised:
\* the rest of run_model, then the rest of the calling surface.  wok tells
\* whether OUTPUT_PATH.write_text succeeds, should the surface call it.
\*   run_model: an exception of agent(...) propagates; an empty buffer raises
\*     RuntimeError; otherwise COLLECTED_TICKETS[0] is patched and returned.
\*   main(): prints the ticket, or catches the exception, prints it and makes
\*     {error: ...} of it; then writes the result outside the try block, so a
\*     failing write ends the process with the exception.
\*   web UI: writes {ticket: ...} inside the try block; any exception, of
\*     run_model or of the write, is shown by st.error and the run stops
\*     without writing anything.
\*   direct: the caller gets the return value or the exception.
Finish(agent, wok) ==
    /\ pc = "agent"
    /\ LET elapsed == Elapsed(call.start_time, now)
           ok == agent = "returned" /\ COLLECTED_TICKETS # <<>>
           ref == IF ok THEN COLLECTED_TICKETS[1] ELSE 0
           error == IF ok THEN ""
                    ELSE IF agent = "raised" THEN TransportMsg
                    ELSE NoCallbackMsg
           outcome == IF ok THEN "ticket" ELSE "error"
           heap1 == IF ok
                    THEN [heap EXCEPT ![ref].wall_time_seconds = Some(elapsed)]
                    ELSE heap
           art == Artifact(outcome, error, IF ok THEN heap1[ref] ELSE None)
           s == call.surface
           writes == \/ s = "cli"
                     \/ s = "ui" /\ ok
       IN /\ heap' = heap1
          /\ retRefs' = IF ok THEN Append(retRefs, ref) ELSE retRefs
          /\ file' = IF writes /\ wok THEN art ELSE file
          /\ last' = [surface |-> s, agent |-> agent, outcome |-> outcome,
                      error |-> error, ref |-> ref, log |-> call.log,
                      message |-> CASE s = "cli" /\ ~ok -> error
                                    [] s = "ui" /\ ~ok -> error
                                    [] s = "ui" /\ ok /\ ~wok -> WriteMsg
                                    [] OTHER -> "",
                      crashed |-> s = "cli" /\ ~wok,
                      write |-> IF ~writes THEN "none"
                                ELSE IF wok THEN "ok" ELSE "failed"]
    /\ pc' = "idle"
    /\ call' = NoCall
    /\ UNCHANGED <<COLLECTED_TICKETS, now, ncalls, ninvokes, nuses>>

\* The agent returns normally.
AgentReturns == \E wok \in BOOLEAN : Finish("returned", wok)

\* a retry: the exception of agent(...) is swallowed and the request sent again
AgentRaisesRetry ==
    /\ pc = "agent"
    /\ ninvokes' = ninvokes + 1
    /\ UNCHANGED <<COLLECTED_TICKETS, heap, now, pc, call, ncalls, nuses, retRefs,
                   last, file>>

\* The request to the hosted model fails: agent(...) raises.
AgentRaises == \E wok \in BOOLEAN : Finish("raised", wok)

Next ==
    \/ Tick /\ UNCHANGED app
    \/ \E s \in Surfaces : Start(s) /\ UNCHANGED app
    \/ \E args \in ArgSpace : ToolUse(args) /\ UNCHANGED app
    \/ AgentReturns /\ UNCHANGED app
    \/ AgentRaises /\ UNCHANGED app

Spec == Init /\ [][Next]_vars

----------------------------------------------------------------------------
(* main.run_model and app.run_model called side by side: the same calls, the
   same tool uses and agent outcomes, the same clock *)

EqTick == Tick /\ UNCHANGED app

EqStart(name) == Start("direct") /\ app' = App_RunModelStart(app, name)

EqToolUse(args) == ToolUse(args) /\ app' = App_WasteReport(app, args)

EqFinish(agent) == Finish(agent, TRUE) /\ app' = App_RunModelEnd(app, agent)

EqNext ==
    \/ EqTick
    \/ \E name \in Uploads : EqStart(name)
    \/ \E args \in ArgSpace : EqToolUse(args)
    \/ \E agent \in {"returned", "raised"} : EqFinish(agent)

SpecEq == Init /\ [][EqNext]_vars

----------------------------------------------------------------------------
(* Properties *)

\* the tool uses of a call whose body ran
Ran(log) == SelectSeq(log, LAMBDA e : e.ran)

\* the attempt finished last came through main() or the web UI
ViaSurface == last.surface \in {"cli", "ui"}

\* C1: an extraction call during which the hosted model asks for no tool use
\* at all, and whose agent call returns, fails with the no-callback
\* RuntimeError and returns no ticket, whatever calls came before it.
C1_NoCallbackFails ==
    (last.agent = "returned" /\ last.log = <<>>)
        => /\ last.outcome = "error"
           /\ last.error = NoCallbackMsg
           /\ last.ref = 0

\* C2: when run_model hands the request to the agent (the call is in flight
\* and no tool use has happened yet), COLLECTED_TICKETS is empty.
C2_BufferEmptyAtHandOff ==
    (pc = "agent" /\ call.log = <<>>) => COLLECTED_TICKETS = <<>>

\* C3: a call whose agent returns after exactly one tool use, with
\* schema-conforming arguments, returns a ticket whose eleven model-supplied
\* fields equal the arguments, with an issued ticket_id, a clock reading as
\* created_at and a wall_time_seconds that is set and not negative.
C3_SingleCallbackTicket ==
    (/\ last.agent = "returned"
     /\ Len(last.log) = 1
     /\ SchemaConforms(last.log[1].args))
        => /\ last.outcome = "ticket"
           /\ last.ref \in DOMAIN heap
           /\ \A f \in Required : heap[last.ref][f] = last.log[1].args[f]
           /\ heap[last.ref].ticket_id \in 1..Len(heap)
           /\ heap[last.ref].created_at \in 0..now
           /\ heap[last.ref].wall_time_seconds # None
           /\ heap[last.ref].wall_time_seconds[1] >= 0

\* C3 witness: such a call has returned the ticket of the Race Course
\* arguments, after one clock tick.
C3_Witness ==
    /\ last.agent = "returned"
    /\ Len(last.log) = 1
    /\ last.log[1].args = Valid1
    /\ last.outcome = "ticket"
    /\ heap[last.ref].lat = 11
    /\ heap[last.ref].lng = 77
    /\ heap[last.ref].wall_time_seconds = Some(1)

\* C4: when waste_report ran two or more times in a call that returns a
\* ticket, the ticket is the one of the last run: its arguments, ticket_id
\* and created_at, and the identifier of no earlier run.
C4_LastWriteWins ==
    (last.outcome = "ticket" /\ Len(Ran(last.log)) >= 2)
        => LET runs == Ran(last.log)
               e == runs[Len(runs)]
           IN /\ last.ref = e.ref
              /\ \A f \in Required : heap[last.ref][f] = e.args[f]
              /\ heap[last.ref].ticket_id = e.id
              /\ heap[last.ref].created_at = e.at
              /\ \A i \in 1..(Len(runs) - 1) :
                    heap[last.ref].ticket_id # runs[i].id

\* C4 witness: a call returned a ticket after two runs of waste_report with
\* different arguments at different times.
C4_Witness ==
    /\ last.outcome = "ticket"
    /\ Len(Ran(last.log)) = 2
    /\ Ran(last.log)[1].args # Ran(last.log)[2].args
    /\ Ran(last.log)[1].at # Ran(last.log)[2].at
    /\ heap[last.ref].created_at = Ran(last.log)[2].at

\* C5: a tool use whose arguments violate the declared schema (a required
\* field missing, an enumerated field out of its set) builds no ticket, and
\* the extraction call it belongs to fails.
C5_SchemaViolationFails ==
    /\ \A i \in DOMAIN call.log :
          ~SchemaConforms(call.log[i].args) => ~call.log[i].ran
    /\ (\E i \in DOMAIN last.log : ~SchemaConforms(last.log[i].args))
          => last.outcome = "error"

\* C6: after an attempt through main() or the web UI (whose write, if any,
\* the storage accepted), benchmark.json holds {ticket: ...} with every field
\* set when the extraction succeeded, and {error: message} when it failed.
C6_ArtifactShape ==
    (ViaSurface /\ last.write # "failed")
        => IF last.outcome = "ticket"
           THEN /\ file.kind = "ticket"
                /\ file.ticket = heap[last.ref]
                /\ file.ticket.wall_time_seconds # None
           ELSE /\ file.kind = "error"
                /\ file.error = last.error

\* C7: a failed attempt through main() or the web UI (the extraction failed,
\* or the result could not be written) is reported with a message and does
\* not end the process with an uncaught exception.
C7_FailuresCaught ==
    (ViaSurface /\ (last.outcome = "error" \/ last.write = "failed"))
        => /\ last.message # ""
           /\ ~last.crashed

\* C8: two calls that each return a ticket return different ticket_id values.
C8_IdsNeverReused ==
    \A i \in DOMAIN retRefs : \A j \in DOMAIN retRefs :
        i # j => heap[retRefs[i]].ticket_id # heap[retRefs[j]].ticket_id

\* C9: a ticket changes only once, while its wall_time_seconds is unset and
\* by the call whose callback created it; a ticket that a call has returned
\* never changes again.
C9_Lifecycle ==
    [][\A r \in DOMAIN heap :
          heap'[r] # heap[r]
             => /\ heap[r].wall_time_seconds = None
                /\ r \notin Range(retRefs)
                /\ \E i \in DOMAIN call.log : call.log[i].ref = r]_vars

\* C10: every ticket returned or written has lat in [-90, 90], lng in
\* [-180, 180] and estimated_weight_kg >= 0.
InRange(t) ==
    /\ t.lat \in -90..90
    /\ t.lng \in -180..180
    /\ t.estimated_weight_kg >= 0

C10_NumericRanges ==
    /\ \A r \in Range(retRefs) : InRange(heap[r])
    /\ file.kind = "ticket" => InRange(file.ticket)

\* C11: run_model invokes the agent once per extraction call and never again:
\* the number of agent invocations grows only in the step in which a caller
\* starts a new call from idle, by one together with the number of calls, and
\* the step that ends a call (with a ticket or a failure) issues none.
C11_NoRetry ==
    [][/\ ninvokes' # ninvokes
            => /\ pc = "idle"
               /\ ninvokes' = ninvokes + 1
               /\ ncalls' = ncalls + 1
       /\ (pc = "agent" /\ pc' = "idle") => ninvokes' = ninvokes]_vars

\* C11 witness: a call has failed after its single invocation, and the
\* caller has started a new call, which made the second invocation.
C11_Witness ==
    /\ last.outcome = "error"
    /\ pc = "agent"
    /\ ncalls = 2
    /\ ninvokes = 2

\* C12: COLLECTED_TICKETS never holds more than one ticket.  It is empty as
\* long as no callback has ever run, and once a callback has run in a call it
\* holds exactly the ticket of the most recent callback, during that call
\* and after it.
C12_SingleSlot ==
    /\ Len(COLLECTED_TICKETS) <= 1
    /\ heap = <<>> => COLLECTED_TICKETS = <<>>
    /\ (pc = "agent" /\ Ran(call.log) # <<>>)
          => COLLECTED_TICKETS = <<Ran(call.log)[Len(Ran(call.log))].ref>>
    /\ (pc = "idle" /\ Ran(last.log) # <<>>)
          => COLLECTED_TICKETS = <<Ran(last.log)[Len(Ran(last.log))].ref>>

\* C12 witness: the second callback of one call has run and the list holds
\* its ticket alone.
C12_Witness ==
    /\ pc = "agent"
    /\ Len(Ran(call.log)) = 2
    /\ Len(heap) = 2
    /\ COLLECTED_TICKETS = <<2>>

\* C13: run side by side on the same calls, tool uses, agent outcomes and
\* clock, app.run_model and main.run_model keep equal buffers and equal
\* tickets and end every call with the same outcome (the same ticket or the
\* same error); the format app.py sends is "jpeg" for a name ending in .jpg
\* or .jpeg in any case and "png" otherwise.
C13_SameMachine ==
    /\ app.buf = COLLECTED_TICKETS
    /\ app.heap = heap
    /\ app.result.outcome = last.outcome
    /\ app.result.error = last.error
    /\ app.result.ref = last.ref
    /\ ncalls > 0
          => app.format = IF app.upload \in {Jpg, UpperJpeg, TwoDots}
                          THEN "jpeg"
                          ELSE "png"

\* C13 witness: after a first call that returned a ticket, a second call
\* without any tool use, for a .JPEG upload, has ended in both modules with
\* the ticket of the first call.
C13_Witness ==
    /\ pc = "idle"
    /\ ncalls = 2
    /\ last.log = <<>>
    /\ last.outcome = "ticket"
    /\ app.result.outcome = "ticket"
    /\ app.result.ref = 1
    /\ app.heap[1].wall_time_seconds = Some(1)
    /\ app.upload = UpperJpeg
    /\ app.format = "jpeg"

====
